---- MODULE Spec2Model ----
(***************************************************************************)
(* Stashly: the folder tree and the resource store                         *)
(* (server/controllers/folderController.js, resourceController.js and the  *)
(* Mongoose models Folder and Resource).                                   *)
(*                                                                         *)
(* The store is two collections, folders and resources, keyed by ids that  *)
(* are never reused.  Spec runs the request handlers one at a time, each   *)
(* handler as one action.  SpecDelete and SpecConc run the same handlers   *)
(* one storage call at a time (every await is a step), the first with one  *)
(* request in flight, the second with interleaved requests.  SpecQuery     *)
(* fills the resource store and then serves one read (a listing or a       *)
(* lookup) on it.  SpecValidate creates resources from bodies with url and *)
(* content.  SpecStats serves getStats read by read among creations,       *)
(* deletions and favorite toggles.  SpecWalk serves moves on every acyclic *)
(* arrangement of a few folders.  SpecTerm interleaves moves, every        *)
(* handler running on as long as it can.                                   *)
(***************************************************************************)
EXTENDS Integers, Sequences, FiniteSets, TLC

\* ------------------------------------------------------------------ bounds
MaxFolders == 3
MaxResources == 1
\* requests a connection sends in SpecDelete and SpecConc
MaxRequests == 1
\* folders stored when the interleaved requests of SpecConc begin
MaxSeedFolders == 2
\* the longest descendants list a walk may build (above any acyclic store's)
MaxWalk == 4
\* resources and folders stored when SpecQuery serves its read
MaxListed == 3
MaxListedFolders == 1
\* folders of the stores SpecWalk starts from
MaxTree == 4
\* moves a connection sends in SpecTerm
MaxMoves == 2
\* the page numbers and page sizes listings ask for
MaxPage == 2
MaxLimit == 2

\* ------------------------------------------------------- values and inputs
\* JavaScript null (parentId / folderId of a root folder / unfiled resource)
NULL == 0
\* JavaScript undefined: the request body does not carry the field
Absent == -1
\* undefined for a string-valued body field
NoName == "undefined"

\* req.session.userId: two accounts
Users == {1, 2}
FolderIds == 1..MaxFolders
ResourceIds == 1..MaxResources
Names == {"Work", "Projects"}

RESOURCE_TYPES == {"bookmark", "prompt", "snippet", "document", "note"}
\* the type values requests carry: two members of the enum and one outsider
TypeInputs == {"bookmark", "note", "bogus"}

VARIABLES
    folders,        \* the folders collection: id -> [userId, parentId, name]
    resources,      \* the resources collection: id -> [userId, folderId, type]
    nextFolderId,   \* ids handed out so far + 1 (ObjectIds are never reused)
    nextResourceId,
    resp,           \* the last response sent
    procs,          \* the requests in flight: handler position and locals
    begun,          \* requests each connection has sent so far
    answer          \* the read request served last and its response payload

vars == <<folders, resources, nextFolderId, nextResourceId, resp, procs, begun,
          answer>>

Range(s) == {s[i] : i \in 1..Len(s)}

\* ascending sequence of a finite set of integers
RECURSIVE SortedSeq(_)
SortedSeq(S) ==
    IF S = {} THEN <<>>
    ELSE LET m == CHOOSE x \in S : \A y \in S : x <= y
         IN <<m>> \o SortedSeq(S \ {m})

\* ------------------------------------------------------------ Folder model

\* the lookup as it would be without the owner in its condition
FindOneFolderAnyOwner(fs, id, u) == id \in DOMAIN fs

\* Folder.findOne({ _id: id, userId })
FindOneFolder(fs, id, u) == id \in DOMAIN fs /\ fs[id].userId = u

\* Folder.findById(id): the document, whoever owns it
FindById(fs, id) == id \in DOMAIN fs

\* this.constructor.find({ parentId: currentId }).select('_id')
ChildrenOf(fs, id) == {c \in DOMAIN fs : fs[c].parentId = id}

\* the turn as it would be if it put the children in front of the list, and
\* as it would be if it did not queue them
BfsIterPrepend(fs, w) ==
    LET children == SortedSeq(ChildrenOf(fs, Head(w.queue)))
    IN [queue |-> Tail(w.queue) \o children,
        descendants |-> children \o w.descendants]

BfsIterChildrenOnly(fs, w) ==
    LET children == SortedSeq(ChildrenOf(fs, Head(w.queue)))
    IN [queue |-> Tail(w.queue),
        descendants |-> w.descendants \o children]

\* one turn of the while loop of getDescendantIds
BfsIter(fs, w) ==
    LET currentId == Head(w.queue)
        children == SortedSeq(ChildrenOf(fs, currentId))
    IN [queue |-> Tail(w.queue) \o children,
        descendants |-> w.descendants \o children]

RECURSIVE BfsLoop(_, _)
BfsLoop(fs, w) ==
    IF w.queue = <<>> THEN w.descendants ELSE BfsLoop(fs, BfsIter(fs, w))

\* folder.getDescendantIds()
GetDescendantIds(fs, id) == BfsLoop(fs, [queue |-> <<id>>, descendants |-> <<>>])

\* the state of the ancestor walk of the pre-save hook:
\* [cur: the id handed to findById (NULL when the walk is over), visited, error]
HookStart(id, parentId) ==
    [cur |-> parentId, visited |-> {id}, error |-> FALSE]

\* one findById of the walk and the turn of the while loop on its result
HookIter(fs, h) ==
    IF ~FindById(fs, h.cur) THEN [h EXCEPT !.cur = NULL]
    ELSE IF h.cur \in h.visited THEN [h EXCEPT !.cur = NULL, !.error = TRUE]
    ELSE [h EXCEPT !.visited = @ \cup {h.cur}, !.cur = fs[h.cur].parentId]

RECURSIVE HookLoop(_, _)
HookLoop(fs, h) ==
    IF h.cur = NULL THEN h.error ELSE HookLoop(fs, HookIter(fs, h))

\* folderSchema.pre('save'): TRUE when the hook passes an error to next()
PreSaveRejects(fs, id, parentId, modified) ==
    /\ parentId # NULL
    /\ modified
    /\ \/ parentId = id
       \/ HookLoop(fs, HookStart(id, parentId))

\* the order of names under .sort({ name: 1 })
NameRank(name) == IF name = "Projects" THEN 1 ELSE 2

\* .sort({ parentId: 1, sortOrder: 1, name: 1 }) when byParent, else
\* .sort({ sortOrder: 1, name: 1 }), of the folders ids; sortOrder is the
\* default 0 on every folder, ties are listed in _id order
FolderBefore(fs, a, b, byParent) ==
    LET ka == <<IF byParent THEN fs[a].parentId ELSE NULL, NameRank(fs[a].name), a>>
        kb == <<IF byParent THEN fs[b].parentId ELSE NULL, NameRank(fs[b].name), b>>
    IN \/ ka[1] < kb[1]
       \/ ka[1] = kb[1] /\ ka[2] < kb[2]
       \/ ka[1] = kb[1] /\ ka[2] = kb[2] /\ ka[3] <= kb[3]

RECURSIVE SortFolders(_, _, _)
SortFolders(fs, ids, byParent) ==
    IF ids = {} THEN <<>>
    ELSE LET first == CHOOSE a \in ids : \A b \in ids : FolderBefore(fs, a, b, byParent)
         IN <<first>> \o SortFolders(fs, ids \ {first}, byParent)

\* Folder.findByUser(userId): the ids of the flat list
FindByUser(fs, u) ==
    SortFolders(fs, {i \in DOMAIN fs : fs[i].userId = u}, TRUE)

\* Folder.getTree(userId): rootFolders as a list of ids and, for every node of
\* folderMap, its children list
GetTree(fs, u) ==
    LET sorted == SortFolders(fs, {i \in DOMAIN fs : fs[i].userId = u}, FALSE)
        InMap(id) == id \in Range(sorted)
        IsRoot(id) == fs[id].parentId = NULL
    IN [roots |-> SelectSeq(sorted, IsRoot),
        children |-> [p \in Range(sorted) |->
                         LET ChildOfP(id) == fs[id].parentId = p
                         IN SelectSeq(sorted, ChildOfP)]]

\* how often folder id occurs in the response: in the nodes of list and, level
\* by level, in their children lists
RECURSIVE OccursIn(_, _, _)
OccursIn(tree, list, id) ==
    IF list = <<>> THEN 0
    ELSE (IF Head(list) = id THEN 1 ELSE 0)
             + OccursIn(tree, tree.children[Head(list)], id)
             + OccursIn(tree, Tail(list), id)

\* the unique index { userId, parentId, name }: TRUE when writing doc under id
\* would raise E11000
DuplicateKey(fs, id, doc) ==
    \E o \in DOMAIN fs \ {id} :
        /\ fs[o].userId = doc.userId
        /\ fs[o].parentId = doc.parentId
        /\ fs[o].name = doc.name

\* isEmpty as it would be if the child folders were not counted
IsEmptyOfResources(fs, rs, folderId) ==
    Cardinality({r \in DOMAIN rs : rs[r].folderId = folderId}) = 0

\* Folder.isEmpty(folderId)
IsEmpty(fs, rs, folderId) ==
    LET resourceCount == Cardinality({r \in DOMAIN rs : rs[r].folderId = folderId})
        childCount == Cardinality({c \in DOMAIN fs : fs[c].parentId = folderId})
    IN resourceCount = 0 /\ childCount = 0

\* save() as it would be if the write went out before the index were checked
SaveFolderWriteFirst(fs, id, doc, parentModified) ==
    [outcome |-> IF \E o \in DOMAIN fs \ {id} :
                        /\ fs[o].userId = doc.userId
                        /\ fs[o].parentId = doc.parentId
                        /\ fs[o].name = doc.name
                 THEN "Conflict" ELSE "ok",
     folders |-> [i \in DOMAIN fs \cup {id} |-> IF i = id THEN doc ELSE fs[i]]]

\* folder.save(): validation passes for every name of Names; then the hook,
\* then the write under the unique index
SaveFolder(fs, id, doc, parentModified) ==
    IF PreSaveRejects(fs, id, doc.parentId, parentModified)
    THEN [outcome |-> "ServerError", folders |-> fs]
    ELSE IF DuplicateKey(fs, id, doc)
    THEN [outcome |-> "Conflict", folders |-> fs]
    ELSE [outcome |-> "ok",
          folders |-> [i \in DOMAIN fs \cup {id} |-> IF i = id THEN doc ELSE fs[i]]]

\* ------------------------------------------------------- folder controller

\* what a handler leaves behind: the outcome it answers with, the two
\* collections, and the id of the entity in the response data (NULL on errors)
Result(outcome, fs, rs, id) ==
    [outcome |-> outcome, folders |-> fs, resources |-> rs,
     id |-> IF outcome = "ok" THEN id ELSE NULL]

\* res.status(...).json(...): the endpoint, the outcome and data's entity id
Response(op, r) == [op |-> op, outcome |-> r.outcome, id |-> r.id]

\* exports.createFolder; newId is the _id the constructor generates
CreateFolderResult(fs, rs, newId, u, name, parentId) ==
    IF parentId # NULL /\ ~FindOneFolder(fs, parentId, u)
    THEN Result("NotFound", fs, rs, NULL)
    ELSE LET doc == [userId |-> u, parentId |-> parentId, name |-> name]
             saved == SaveFolder(fs, newId, doc, TRUE)
         IN Result(saved.outcome, saved.folders, rs, newId)

\* updateFolder, lines 180-181: the body asks for a parent other than the
\* loaded one (a null in the body always differs from folder.parentId?.toString())
ParentChanging(folder, parentId) ==
    parentId # Absent /\ (parentId = NULL \/ parentId # folder.parentId)

\* the refusals as they would be without the descendant walk
MoveRefusedSelfOnly(fs, id, parentId) == parentId = id

\* updateFolder, lines 183-198: the two structural refusals of a move
MoveRefused(fs, id, parentId) ==
    \/ parentId = id
    \/ parentId \in Range(GetDescendantIds(fs, id))

\* updateFolder, lines 211-218: the loaded document after the assignments
FolderPatched(folder, parentId, name) ==
    [folder EXCEPT
        !.parentId = IF ParentChanging(folder, parentId) THEN parentId ELSE @,
        !.name = IF name # NoName THEN name ELSE @]

\* exports.updateFolder
UpdateFolderResult(fs, rs, u, id, parentId, name) ==
    IF ~FindOneFolder(fs, id, u)
    THEN Result("NotFound", fs, rs, NULL)
    ELSE LET folder == fs[id]
             toParent == ParentChanging(folder, parentId) /\ parentId # NULL
         IN IF toParent /\ MoveRefused(fs, id, parentId)
            THEN Result("InvalidOperation", fs, rs, NULL)
            ELSE IF toParent /\ ~FindOneFolder(fs, parentId, u)
            THEN Result("NotFound", fs, rs, NULL)
            ELSE LET doc == FolderPatched(folder, parentId, name)
                     saved == SaveFolder(fs, id, doc, doc.parentId # folder.parentId)
                 IN Result(saved.outcome, saved.folders, rs, id)

\* Resource.updateMany({ folderId: folder._id }, { folderId: folder.parentId })
ReparentResources(rs, id, parentId) ==
    [r \in DOMAIN rs |->
        IF rs[r].folderId = id THEN [rs[r] EXCEPT !.folderId = parentId] ELSE rs[r]]

\* the forced delete as it would be if the child folders were left where they are
ReparentFoldersNone(fs, id, parentId) == {[folders |-> fs, ok |-> TRUE]}

\* the forced delete as it would be if it moved the grandchildren up as well
ReparentFoldersDeep(fs, id, parentId) ==
    {[folders |-> [c \in DOMAIN fs |->
                      IF fs[c].parentId = id \/ fs[c].parentId \in ChildrenOf(fs, id)
                      THEN [fs[c] EXCEPT !.parentId = parentId]
                      ELSE fs[c]],
      ok |-> TRUE]}

\* Folder.updateMany({ parentId: folder._id }, { parentId: folder.parentId }):
\* the matching documents are written one by one, in an order the store
\* chooses, and the command stops at the first write the unique index refuses.
\* The set of [folders, ok] it can leave.
RECURSIVE ReparentFolders(_, _, _)
ReparentFolders(fs, id, parentId) ==
    LET pending == ChildrenOf(fs, id)
    IN IF pending = {} \/ parentId = id
       THEN {[folders |-> fs, ok |-> TRUE]}
       ELSE UNION {
                LET doc == [fs[c] EXCEPT !.parentId = parentId]
                IN IF DuplicateKey(fs, c, doc)
                   THEN {[folders |-> fs, ok |-> FALSE]}
                   ELSE ReparentFolders([fs EXCEPT ![c] = doc], id, parentId)
                : c \in pending}

\* folder.deleteOne()
DeleteOne(fs, id) == [i \in DOMAIN fs \ {id} |-> fs[i]]

\* exports.deleteFolder: the set of results it can leave
DeleteFolderResults(fs, rs, u, id, force) ==
    IF ~FindOneFolder(fs, id, u)
    THEN {Result("NotFound", fs, rs, NULL)}
    ELSE LET folder == fs[id]
             isEmpty == IsEmpty(fs, rs, id)
         IN IF ~isEmpty /\ ~force
            THEN {Result("NotEmpty", fs, rs, NULL)}
            ELSE IF ~isEmpty /\ force
            THEN LET rs1 == ReparentResources(rs, id, folder.parentId)
                 IN {IF m.ok
                     THEN Result("ok", DeleteOne(m.folders, id), rs1, id)
                     ELSE Result("ServerError", m.folders, rs1, NULL)
                     : m \in ReparentFolders(fs, id, folder.parentId)}
            ELSE {Result("ok", DeleteOne(fs, id), rs, id)}

\* --------------------------------------------------------- Resource model

\* the lookup as it would be without the owner in its condition
FindOneResourceAnyOwner(rs, id, u) == id \in DOMAIN rs

\* Resource.findOne({ _id: id, userId })
FindOneResource(rs, id, u) == id \in DOMAIN rs /\ rs[id].userId = u

\* the enum validator of resourceSchema.type
ValidType(type) == type \in RESOURCE_TYPES

\* A string whose characters matter (a tag, a comma-separated list) is the
\* sequence of its characters.
\* String.prototype.toLowerCase on one character
LowerChar(c) ==
    CASE c = "R" -> "r"
      [] c = "V" -> "v"
      [] OTHER -> c

ToLowerCase(str) == [i \in 1..Len(str) |-> LowerChar(str[i])]

\* String.prototype.trim
RECURSIVE TrimStart(_)
TrimStart(str) ==
    IF str # <<>> /\ Head(str) = " " THEN TrimStart(Tail(str)) ELSE str

RECURSIVE TrimEnd(_)
TrimEnd(str) ==
    IF str # <<>> /\ str[Len(str)] = " "
    THEN TrimEnd(SubSeq(str, 1, Len(str) - 1)) ELSE str

Trim(str) == TrimEnd(TrimStart(str))

\* the setters of one element of resourceSchema.tags: trim, lowercase
SetTag(tag) == ToLowerCase(Trim(tag))

\* the tags array as the schema casts it: every element through its setters,
\* in the order given
CastTags(tags) == [i \in 1..Len(tags) |-> SetTag(tags[i])]

\* ----------------------------------------------------- resource controller

\* createResource, lines 52-60: the constructor's argument; the rest of the
\* body (typeFields) is spread last, over the fields named before it
NewResource(u, type, folderId, bodyUserId, tags, favorite) ==
    [type |-> type,
     userId |-> IF bodyUserId # Absent THEN bodyUserId ELSE u,
     folderId |-> folderId,
     tags |-> CastTags(tags),
     favorite |-> favorite,
     createdAt |-> NULL]

\* resource.save() of a new document: timestamps sets createdAt; the clock is
\* read as the count of documents created so far
Inserted(doc, newId) == [doc EXCEPT !.createdAt = newId]

\* exports.createResource; newId is the _id the constructor generates.  tags is
\* the body's tags or, without them, [] (tags: tags || []); favorite is the
\* body's favorite, one of the typeFields, or the schema's default, false
CreateResourceFull(fs, rs, newId, u, type, folderId, bodyUserId, tags, favorite) ==
    IF ~(type \in RESOURCE_TYPES)
    THEN Result("InvalidType", fs, rs, NULL)
    ELSE IF folderId # NULL /\ ~FindOneFolder(fs, folderId, u)
    THEN Result("NotFound", fs, rs, NULL)
    ELSE LET doc == Inserted(NewResource(u, type, folderId, bodyUserId, tags,
                                         favorite), newId)
         IN Result("ok", fs,
                   [i \in DOMAIN rs \cup {newId} |-> IF i = newId THEN doc ELSE rs[i]],
                   newId)

\* exports.createResource with a body without tags and favorite
CreateResourceResult(fs, rs, newId, u, type, folderId, bodyUserId) ==
    CreateResourceFull(fs, rs, newId, u, type, folderId, bodyUserId, <<>>, FALSE)

\* the type-specific body fields url and content: {} when the body does not
\* carry the field, {the string} (a character sequence) when it does
\* validators for url (bookmark) and content (prompt, snippet, note) after the
\* trim setter; a validate function is not run on a path that is undefined
UrlInvalid(type, url) ==
    /\ url # {}
    /\ type = "bookmark"
    /\ \A v \in url : ~(Len(Trim(v)) > 0)

ContentInvalid(type, content) ==
    /\ content # {}
    /\ type \in {"prompt", "snippet", "note"}
    /\ \A v \in content : ~(Len(Trim(v)) > 0)

\* error.errors of the ValidationError save() raises: the paths that failed
ValidationErrors(type, url, content) ==
    (IF UrlInvalid(type, url) THEN {"url"} ELSE {})
        \cup (IF ContentInvalid(type, content) THEN {"content"} ELSE {})

\* exports.createResource for a titled body with type, url and content and
\* none of folderId, tags, userId, favorite
CreateResourceValidated(fs, rs, newId, u, type, url, content) ==
    IF ~(type \in RESOURCE_TYPES)
    THEN Result("InvalidType", fs, rs, NULL)
    ELSE IF ValidationErrors(type, url, content) # {}
    THEN Result("ValidationError", fs, rs, NULL)
    ELSE CreateResourceFull(fs, rs, newId, u, type, NULL, Absent, <<>>, FALSE)

\* updateResource, lines 227 and 240: the body asks for another folder
FolderChanging(resource, folderId) ==
    folderId # Absent /\ (folderId = NULL \/ folderId # resource.folderId)

\* updateResource, lines 240-254: the loaded document after the assignments;
\* type and userId arrive in typeFields and are assigned like any other key.
\* patch.tags is {} when the body has no tags and {tags} when it has
ResourcePatched(resource, patch) ==
    [resource EXCEPT
        !.folderId = IF FolderChanging(resource, patch.folderId)
                     THEN patch.folderId ELSE @,
        !.tags = IF patch.tags # {} THEN CastTags(CHOOSE t \in patch.tags : TRUE)
                 ELSE @,
        !.type = IF patch.type # NoName THEN patch.type ELSE @,
        !.userId = IF patch.userId # Absent THEN patch.userId ELSE @]

\* exports.updateResource
UpdateResourceResult(fs, rs, u, id, patch) ==
    IF ~FindOneResource(rs, id, u)
    THEN Result("NotFound", fs, rs, NULL)
    ELSE LET resource == rs[id]
         IN IF /\ FolderChanging(resource, patch.folderId)
               /\ patch.folderId # NULL
               /\ ~FindOneFolder(fs, patch.folderId, u)
            THEN Result("NotFound", fs, rs, NULL)
            ELSE LET doc == ResourcePatched(resource, patch)
                 IN IF ~ValidType(doc.type)
                    THEN Result("ValidationError", fs, rs, NULL)
                    ELSE Result("ok", fs, [rs EXCEPT ![id] = doc], id)

\* exports.deleteResource: Resource.findOneAndDelete({ _id, userId })
DeleteResourceResult(fs, rs, u, id) ==
    IF FindOneResource(rs, id, u)
    THEN Result("ok", fs, [i \in DOMAIN rs \ {id} |-> rs[i]], id)
    ELSE Result("NotFound", fs, rs, NULL)

\* the toggle as it would be if it set the flag instead of flipping it
ToggleFavoriteSets(fs, rs, u, id) ==
    IF ~(id \in DOMAIN rs /\ rs[id].userId = u)
    THEN Result("NotFound", fs, rs, NULL)
    ELSE Result("ok", fs, [rs EXCEPT ![id].favorite = TRUE], id)

\* exports.toggleFavorite
ToggleFavoriteResult(fs, rs, u, id) ==
    IF ~FindOneResource(rs, id, u)
    THEN Result("NotFound", fs, rs, NULL)
    ELSE Result("ok", fs, [rs EXCEPT ![id].favorite = ~rs[id].favorite], id)

\* exports.getResourceById: the outcome and the id of data.resource
GetResourceByIdResult(rs, u, id) ==
    IF ~FindOneResource(rs, id, u)
    THEN [op |-> "getResourceById", user |-> u, id |-> id,
          outcome |-> "NotFound", found |-> NULL]
    ELSE [op |-> "getResourceById", user |-> u, id |-> id,
          outcome |-> "ok", found |-> id]

\* exports.getFolderById: the outcome and the id of data.folder
GetFolderByIdResult(fs, u, id) ==
    IF ~FindOneFolder(fs, id, u)
    THEN [op |-> "getFolderById", user |-> u, id |-> id,
          outcome |-> "NotFound", found |-> NULL]
    ELSE [op |-> "getFolderById", user |-> u, id |-> id,
          outcome |-> "ok", found |-> id]

\* ------------------------------------------------------------ getResources

\* req.query.folderId = 'root' and = 'null'
RootSentinel == -2
NullSentinel == -3

\* const { ..., page = 1, limit = 50 } = req.query
DefaultPage == 1
DefaultLimit == 50

\* String.prototype.split(','): the pieces of str from position i on, cur
\* being the piece read so far
RECURSIVE SplitFrom(_, _, _)
SplitFrom(str, cur, i) ==
    IF i > Len(str) THEN <<cur>>
    ELSE IF str[i] = "," THEN <<cur>> \o SplitFrom(str, <<>>, i + 1)
    ELSE SplitFrom(str, Append(cur, str[i]), i + 1)

Split(str) == SplitFrom(str, <<>>, 1)

\* tagArray.map(t => t.toLowerCase().trim())
QueryTags(tagArray) == [i \in 1..Len(tagArray) |-> Trim(ToLowerCase(tagArray[i]))]

\* The query: type and favorite are strings (NoName when missing), folderId a
\* folder id, a sentinel or Absent, tags the string of a single tags parameter
\* (<<>> when missing or empty), tagList {the array} of a repeated one ({}
\* otherwise), page and limit numbers or Absent.
\* The filter object getResources builds: a field the filter does not have is
\* {}, a field it has is {the value to match}
BuildFilter(u, q) ==
    [userId |-> u,
     type |-> IF q.type # NoName /\ q.type \in RESOURCE_TYPES THEN {q.type} ELSE {},
     folderId |-> IF q.folderId \in {NullSentinel, RootSentinel} THEN {NULL}
                  ELSE IF q.folderId # Absent THEN {q.folderId}
                  ELSE {},
     favorite |-> IF q.favorite = "true" THEN {TRUE} ELSE {},
     tags |-> IF q.tagList # {} THEN {QueryTags(CHOOSE l \in q.tagList : TRUE)}
              ELSE IF q.tags # <<>> THEN {QueryTags(Split(q.tags))}
              ELSE {}]

\* the match as it would be without the owner, the type or the folder in the
\* filter
MatchesFilterAnyUser(doc, filter) ==
    /\ filter.type = {} \/ doc.type \in filter.type
    /\ filter.folderId = {} \/ doc.folderId \in filter.folderId
    /\ filter.favorite = {} \/ doc.favorite \in filter.favorite
    /\ filter.tags = {} \/ \E wanted \in filter.tags :
           {doc.tags[i] : i \in 1..Len(doc.tags)}
               \cap {wanted[i] : i \in 1..Len(wanted)} # {}

MatchesFilterAnyType(doc, filter) ==
    /\ doc.userId = filter.userId
    /\ MatchesFilterAnyUser(doc, [filter EXCEPT !.type = {}])

MatchesFilterAnyFolder(doc, filter) ==
    /\ doc.userId = filter.userId
    /\ MatchesFilterAnyUser(doc, [filter EXCEPT !.folderId = {}])

\* a document matches the filter: equality on the scalar fields, $in on tags
MatchesFilter(doc, filter) ==
    /\ doc.userId = filter.userId
    /\ filter.type = {} \/ doc.type \in filter.type
    /\ filter.folderId = {} \/ doc.folderId \in filter.folderId
    /\ filter.favorite = {} \/ doc.favorite \in filter.favorite
    /\ filter.tags = {} \/ \E wanted \in filter.tags :
           Range(doc.tags) \cap Range(wanted) # {}

\* .sort({ createdAt: -1 }) of the documents ids
RECURSIVE SortNewestFirst(_, _)
SortNewestFirst(rs, ids) ==
    IF ids = {} THEN <<>>
    ELSE LET newest == CHOOSE i \in ids :
                           \A j \in ids : rs[j].createdAt <= rs[i].createdAt
         IN <<newest>> \o SortNewestFirst(rs, ids \ {newest})

\* Resource.find(filter).sort(...).skip(skip).limit(limit)
FindPage(rs, filter, skip, limit) ==
    LET sorted == SortNewestFirst(rs, {i \in DOMAIN rs : MatchesFilter(rs[i], filter)})
        last == IF skip + limit < Len(sorted) THEN skip + limit ELSE Len(sorted)
    IN SubSeq(sorted, skip + 1, last)

\* Resource.countDocuments(filter)
CountDocuments(rs, filter) ==
    Cardinality({i \in DOMAIN rs : MatchesFilter(rs[i], filter)})

\* Math.ceil(total / limit), limit >= 1
Ceil(total, limit) == (total + limit - 1) \div limit

\* exports.getResources: the ids of data.resources in order, and data.pagination
GetResourcesResult(rs, u, q) ==
    LET filter == BuildFilter(u, q)
        page == IF q.page = Absent THEN DefaultPage ELSE q.page
        limit == IF q.limit = Absent THEN DefaultLimit ELSE q.limit
        skip == (page - 1) * limit
        total == CountDocuments(rs, filter)
    IN [op |-> "getResources", user |-> u, query |-> q, outcome |-> "ok",
        resources |-> FindPage(rs, filter, skip, limit),
        page |-> page, limit |-> limit, total |-> total,
        pages |-> Ceil(total, limit)]

\* ---------------------------------------------------------------- getStats

\* the sum as it would be if it stopped after one type
SumCountsOne(counts, S) == IF S = {} THEN 0 ELSE counts[CHOOSE x \in S : TRUE]

\* Object.values(counts).reduce((a, b) => a + b, 0) over the types in S
RECURSIVE SumCounts(_, _)
SumCounts(counts, S) ==
    IF S = {} THEN 0
    ELSE LET t == CHOOSE x \in S : TRUE
         IN counts[t] + SumCounts(counts, S \ {t})

\* exports.getStats: the $match / $group aggregation spread over
\* Resource.TYPES, their sum, and the count of the user's favorites
GetStatsResult(rs, u) ==
    LET counts == [t \in RESOURCE_TYPES |->
                      Cardinality({i \in DOMAIN rs :
                                      rs[i].userId = u /\ rs[i].type = t})]
    IN [op |-> "getStats", user |-> u, outcome |-> "ok",
        counts |-> counts,
        total |-> SumCounts(counts, RESOURCE_TYPES),
        favorites |-> Cardinality({i \in DOMAIN rs :
                                      rs[i].userId = u /\ rs[i].favorite})]

\* getStats between its two awaits: the aggregation has been read and summed,
\* the favorites count has not
StatsAggregated(rs, u) ==
    LET whole == GetStatsResult(rs, u)
    IN [op |-> "gs_favorites", user |-> u, counts |-> whole.counts,
        total |-> whole.total]

\* getStats after Resource.countDocuments({ userId, favorite: true }) on rs
StatsCounted(rs, a) ==
    [op |-> "getStats", user |-> a.user, outcome |-> "ok", counts |-> a.counts,
     total |-> a.total, favorites |-> GetStatsResult(rs, a.user).favorites]

\* the patches requests carry: at most one of folderId, type and userId
ResourcePatches ==
    {p \in [folderId : {Absent, NULL} \cup FolderIds,
            type : {NoName} \cup TypeInputs,
            userId : {Absent} \cup Users,
            tags : {{}}] :
        \/ p.folderId = Absent /\ p.type = NoName
        \/ p.folderId = Absent /\ p.userId = Absent
        \/ p.type = NoName /\ p.userId = Absent}

\* ------------------------------------------- the handlers, one at a time

\* a handler served from request to response in one step
Serve(op, r) ==
    /\ folders' = r.folders
    /\ resources' = r.resources
    /\ resp' = Response(op, r)
    /\ nextFolderId' =
           IF op = "createFolder" /\ r.outcome = "ok" THEN nextFolderId + 1
           ELSE nextFolderId
    /\ nextResourceId' =
           IF op = "createResource" /\ r.outcome = "ok" THEN nextResourceId + 1
           ELSE nextResourceId
    /\ UNCHANGED <<procs, begun, answer>>

CreateFolder(u, name, parentId) ==
    /\ nextFolderId <= MaxFolders
    /\ Serve("createFolder",
             CreateFolderResult(folders, resources, nextFolderId, u, name, parentId))

UpdateFolder(u, id, parentId, name) ==
    Serve("updateFolder", UpdateFolderResult(folders, resources, u, id, parentId, name))

DeleteFolder(u, id, force) ==
    \E r \in DeleteFolderResults(folders, resources, u, id, force) :
        Serve("deleteFolder", r)

CreateResource(u, type, folderId, bodyUserId) ==
    /\ nextResourceId <= MaxResources
    /\ Serve("createResource",
             CreateResourceResult(folders, resources, nextResourceId, u, type,
                                  folderId, bodyUserId))

UpdateResource(u, id, patch) ==
    Serve("updateResource", UpdateResourceResult(folders, resources, u, id, patch))

DeleteResource(u, id) ==
    Serve("deleteResource", DeleteResourceResult(folders, resources, u, id))

\* --------------------------------- the handlers, one storage call at a time

Procs == {1, 2}

NoFolderDoc == [userId |-> NULL, parentId |-> NULL, name |-> NoName]
NoResourceDoc == [userId |-> NULL, folderId |-> NULL, type |-> NoName]
NoWalk == [queue |-> <<>>, descendants |-> <<>>]
NoHook == [cur |-> NULL, visited |-> {}, error |-> FALSE]

\* req.session.userId, req.params.id, req.query.force and the body fields the
\* handlers read (parentId doubles as a resource request's folderId)
Request(op, u, id, parentId, name, force, type, bodyUserId) ==
    [op |-> op, user |-> u, id |-> id, parentId |-> parentId, name |-> name,
     force |-> force, type |-> type, userId |-> bodyUserId]

NoRequest == Request("none", NULL, NULL, Absent, NoName, FALSE, NoName, Absent)

\* a handler between two awaits: where it stands, the loaded document with the
\* handler's assignments, the paths those modified, and the state of its walks
IdleProc ==
    [pc |-> "idle", req |-> NoRequest, folder |-> NoFolderDoc,
     resource |-> NoResourceDoc, modified |-> {}, w |-> NoWalk, h |-> NoHook]

\* the deleteFolder requests
DeleteRequests ==
    {Request("deleteFolder", u, id, Absent, NoName, force, NoName, Absent) :
        u \in Users, id \in FolderIds, force \in BOOLEAN}

\* the session user whose requests interleave in SpecConc
ConcUser == 1

\* the requests that interleave in SpecConc: creations, moves, renames, deletes
\* of folders, and creations, refilings and deletes of resources
ConcRequests ==
    {Request("createFolder", ConcUser, NULL, parentId, name, FALSE, NoName, Absent) :
        parentId \in {NULL} \cup FolderIds, name \in Names}
    \cup
    {Request("updateFolder", ConcUser, id, parentId, NoName, FALSE, NoName, Absent) :
        id \in FolderIds, parentId \in {NULL} \cup FolderIds}
    \cup
    {Request("updateFolder", ConcUser, id, Absent, name, FALSE, NoName, Absent) :
        id \in FolderIds, name \in Names}
    \cup
    {r \in DeleteRequests : r.user = ConcUser}
    \cup
    {Request("createResource", ConcUser, NULL, folderId, NoName, FALSE, "note", Absent) :
        folderId \in {NULL} \cup FolderIds}
    \cup
    {Request("updateResource", ConcUser, id, folderId, NoName, FALSE, NoName, Absent) :
        id \in ResourceIds, folderId \in {NULL} \cup FolderIds}
    \cup
    {Request("deleteResource", ConcUser, id, Absent, NoName, FALSE, NoName, Absent) :
        id \in ResourceIds}

\* the first storage call of each handler
FirstPc(op) ==
    CASE op = "createFolder" -> "cf_start"
      [] op = "updateFolder" -> "uf_find"
      [] op = "deleteFolder" -> "df_find"
      [] op = "createResource" -> "cr_start"
      [] op = "updateResource" -> "ur_find"
      [] op = "deleteResource" -> "dr_delete"

InFlight(op) == Cardinality({q \in Procs : procs[q].req.op = op})

\* a request arrives at process p
Begin(p, req) ==
    /\ procs[p].pc = "idle"
    /\ begun[p] < MaxRequests
    /\ req.op = "createFolder" => nextFolderId + InFlight("createFolder") <= MaxFolders
    /\ req.op = "createResource" =>
           nextResourceId + InFlight("createResource") <= MaxResources
    /\ procs' = [procs EXCEPT ![p] = [IdleProc EXCEPT !.pc = FirstPc(req.op),
                                                      !.req = req]]
    /\ begun' = [begun EXCEPT ![p] = @ + 1]
    /\ UNCHANGED <<folders, resources, nextFolderId, nextResourceId, resp, answer>>

\* the handler of p returns its response
Respond(p, outcome, id) ==
    /\ resp' = Response(procs[p].req.op, [outcome |-> outcome,
                                          id |-> IF outcome = "ok" THEN id ELSE NULL])
    /\ procs' = [procs EXCEPT ![p] = IdleProc]
    /\ UNCHANGED answer

Goto(p, pr) == procs' = [procs EXCEPT ![p] = pr] /\ UNCHANGED <<resp, answer>>

Store == <<folders, resources, nextFolderId, nextResourceId>>

\* folder.save() up to its first storage call: the pre-save hook's entry test
\* and self check, then the walk's first findById or, with nothing to walk,
\* the write (writePc)
EnterSave(p, pr, writePc) ==
    IF pr.folder.parentId # NULL /\ "parentId" \in pr.modified
    THEN IF pr.folder.parentId = pr.req.id
         THEN Respond(p, "ServerError", NULL)
         ELSE Goto(p, [pr EXCEPT !.pc = "hook",
                                 !.h = HookStart(pr.req.id, pr.folder.parentId)])
    ELSE Goto(p, [pr EXCEPT !.pc = writePc])

\* createFolder: the parent lookup, then new Folder(...) and save()
CfStart(p) ==
    LET pr == procs[p]
        req == pr.req
    IN /\ pr.pc = "cf_start"
       /\ UNCHANGED <<Store, begun>>
       /\ IF req.parentId # NULL /\ ~FindOneFolder(folders, req.parentId, req.user)
          THEN Respond(p, "NotFound", NULL)
          ELSE EnterSave(p, [pr EXCEPT
                                !.folder = [userId |-> req.user,
                                            parentId |-> req.parentId,
                                            name |-> req.name],
                                !.modified = {"parentId", "name"}],
                         "cf_insert")

\* one findById of the pre-save hook's walk
Hook(p) ==
    LET pr == procs[p]
        h == HookIter(folders, pr.h)
    IN /\ pr.pc = "hook"
       /\ UNCHANGED <<Store, begun>>
       /\ IF h.error THEN Respond(p, "ServerError", NULL)
          ELSE IF h.cur # NULL THEN Goto(p, [pr EXCEPT !.h = h])
          ELSE Goto(p, [pr EXCEPT !.h = NoHook,
                                  !.pc = IF pr.req.op = "createFolder"
                                         THEN "cf_insert" ELSE "uf_write"])

\* save() of a new folder: the insert, under the unique index
CfInsert(p) ==
    LET pr == procs[p]
        id == nextFolderId
    IN /\ pr.pc = "cf_insert"
       /\ UNCHANGED <<resources, nextResourceId, begun>>
       /\ IF DuplicateKey(folders, id, pr.folder)
          THEN /\ Respond(p, "Conflict", NULL)
               /\ UNCHANGED <<folders, nextFolderId>>
          ELSE /\ folders' = [i \in DOMAIN folders \cup {id} |->
                                 IF i = id THEN pr.folder ELSE folders[i]]
               /\ nextFolderId' = id + 1
               /\ Respond(p, "ok", id)

\* updateFolder: the findOne, then the handler up to its next storage call
UfFind(p) ==
    LET pr == procs[p]
        req == pr.req
    IN /\ pr.pc = "uf_find"
       /\ UNCHANGED <<Store, begun>>
       /\ IF ~FindOneFolder(folders, req.id, req.user)
          THEN Respond(p, "NotFound", NULL)
          ELSE LET folder == folders[req.id]
                   loaded == [pr EXCEPT !.folder = folder]
               IN IF ParentChanging(folder, req.parentId) /\ req.parentId # NULL
                  THEN IF req.parentId = req.id
                       THEN Respond(p, "InvalidOperation", NULL)
                       ELSE Goto(p, [loaded EXCEPT
                                        !.pc = "uf_walk",
                                        !.w = [queue |-> <<req.id>>,
                                               descendants |-> <<>>]])
                  ELSE LET doc == FolderPatched(folder, req.parentId, req.name)
                       IN EnterSave(p, [loaded EXCEPT
                                           !.folder = doc,
                                           !.modified =
                                               {f \in {"parentId", "name"} :
                                                   doc[f] # folder[f]}],
                                    "uf_write")

\* one find({ parentId }) of getDescendantIds; after the last, the test of the
\* descendants list
UfWalk(p) ==
    LET pr == procs[p]
        w == BfsIter(folders, pr.w)
    IN /\ pr.pc = "uf_walk"
       /\ Len(pr.w.descendants) < MaxWalk
       /\ UNCHANGED <<Store, begun>>
       /\ IF w.queue # <<>> THEN Goto(p, [pr EXCEPT !.w = w])
          ELSE IF pr.req.parentId \in Range(w.descendants)
          THEN Respond(p, "InvalidOperation", NULL)
          ELSE Goto(p, [pr EXCEPT !.w = NoWalk, !.pc = "uf_parent"])

\* updateFolder: the lookup of the new parent, the assignments, save()
UfParent(p) ==
    LET pr == procs[p]
        req == pr.req
        doc == FolderPatched(pr.folder, req.parentId, req.name)
    IN /\ pr.pc = "uf_parent"
       /\ UNCHANGED <<Store, begun>>
       /\ IF ~FindOneFolder(folders, req.parentId, req.user)
          THEN Respond(p, "NotFound", NULL)
          ELSE EnterSave(p, [pr EXCEPT
                                !.folder = doc,
                                !.modified = {f \in {"parentId", "name"} :
                                                 doc[f] # pr.folder[f]}],
                         "uf_write")

\* save() of a loaded folder: updateOne({ _id }, { $set: modified paths }) under
\* the unique index; nothing is sent when no path is modified, and a document
\* that is gone makes save() throw
UfWrite(p) ==
    LET pr == procs[p]
        id == pr.req.id
    IN /\ pr.pc = "uf_write"
       /\ UNCHANGED <<resources, nextFolderId, nextResourceId, begun>>
       /\ IF pr.modified = {}
          THEN Respond(p, "ok", id) /\ UNCHANGED folders
          ELSE IF id \notin DOMAIN folders
          THEN Respond(p, "ServerError", NULL) /\ UNCHANGED folders
          ELSE LET doc == [f \in {"userId", "parentId", "name"} |->
                              IF f \in pr.modified THEN pr.folder[f]
                              ELSE folders[id][f]]
               IN IF DuplicateKey(folders, id, doc)
                  THEN Respond(p, "Conflict", NULL) /\ UNCHANGED folders
                  ELSE /\ folders' = [folders EXCEPT ![id] = doc]
                       /\ Respond(p, "ok", id)

\* deleteFolder: the findOne
DfFind(p) ==
    LET pr == procs[p]
        req == pr.req
    IN /\ pr.pc = "df_find"
       /\ UNCHANGED <<Store, begun>>
       /\ IF ~FindOneFolder(folders, req.id, req.user)
          THEN Respond(p, "NotFound", NULL)
          ELSE Goto(p, [pr EXCEPT !.folder = folders[req.id], !.pc = "df_empty"])

\* the forced delete as it would be removing the folder before the reparenting
DfEmptyRemoveFirst(p) ==
    LET pr == procs[p]
        isEmpty == IsEmpty(folders, resources, pr.req.id)
    IN /\ pr.pc = "df_empty"
       /\ UNCHANGED <<resources, nextFolderId, nextResourceId, begun>>
       /\ IF ~isEmpty /\ ~pr.req.force
          THEN Respond(p, "NotEmpty", NULL) /\ UNCHANGED folders
          ELSE IF ~isEmpty /\ pr.req.force
          THEN /\ folders' = DeleteOne(folders, pr.req.id)
               /\ Goto(p, [pr EXCEPT !.pc = "df_resources"])
          ELSE Goto(p, [pr EXCEPT !.pc = "df_remove"]) /\ UNCHANGED folders

\* deleteFolder: Folder.isEmpty and the branch on it
DfEmpty(p) ==
    LET pr == procs[p]
        isEmpty == IsEmpty(folders, resources, pr.req.id)
    IN /\ pr.pc = "df_empty"
       /\ UNCHANGED <<Store, begun>>
       /\ IF ~isEmpty /\ ~pr.req.force THEN Respond(p, "NotEmpty", NULL)
          ELSE IF ~isEmpty /\ pr.req.force
          THEN Goto(p, [pr EXCEPT !.pc = "df_resources"])
          ELSE Goto(p, [pr EXCEPT !.pc = "df_remove"])

\* deleteFolder: Resource.updateMany
DfResources(p) ==
    LET pr == procs[p]
    IN /\ pr.pc = "df_resources"
       /\ resources' = ReparentResources(resources, pr.req.id, pr.folder.parentId)
       /\ Goto(p, [pr EXCEPT !.pc = "df_children"])
       /\ UNCHANGED <<folders, nextFolderId, nextResourceId, begun>>

\* deleteFolder: Folder.updateMany; a duplicate key ends the handler in its catch
DfChildren(p) ==
    LET pr == procs[p]
    IN /\ pr.pc = "df_children"
       /\ UNCHANGED <<resources, nextFolderId, nextResourceId, begun>>
       /\ \E m \in ReparentFolders(folders, pr.req.id, pr.folder.parentId) :
              /\ folders' = m.folders
              /\ IF m.ok THEN Goto(p, [pr EXCEPT !.pc = "df_remove"])
                 ELSE Respond(p, "ServerError", NULL)

\* deleteFolder: folder.deleteOne()
DfRemove(p) ==
    LET pr == procs[p]
    IN /\ pr.pc = "df_remove"
       /\ folders' = DeleteOne(folders, pr.req.id)
       /\ Respond(p, "ok", pr.req.id)
       /\ UNCHANGED <<resources, nextFolderId, nextResourceId, begun>>

\* createResource: the type test, the folder lookup, new Resource(...)
CrStart(p) ==
    LET pr == procs[p]
        req == pr.req
    IN /\ pr.pc = "cr_start"
       /\ UNCHANGED <<Store, begun>>
       /\ IF ~(req.type \in RESOURCE_TYPES) THEN Respond(p, "InvalidType", NULL)
          ELSE IF req.parentId # NULL /\ ~FindOneFolder(folders, req.parentId, req.user)
          THEN Respond(p, "NotFound", NULL)
          ELSE Goto(p, [pr EXCEPT
                           !.resource = NewResource(req.user, req.type,
                                                    req.parentId, req.userId, <<>>,
                                                    FALSE),
                           !.pc = "cr_insert"])

\* save() of a new resource: the insert
CrInsert(p) ==
    LET pr == procs[p]
        id == nextResourceId
    IN /\ pr.pc = "cr_insert"
       /\ resources' = [i \in DOMAIN resources \cup {id} |->
                           IF i = id THEN Inserted(pr.resource, id)
                           ELSE resources[i]]
       /\ nextResourceId' = id + 1
       /\ Respond(p, "ok", id)
       /\ UNCHANGED <<folders, nextFolderId, begun>>

\* the body of an updateResource request as a patch
PatchOf(req) ==
    [folderId |-> req.parentId, type |-> req.type, userId |-> req.userId,
     tags |-> {}]

\* updateResource after its lookups: the assignments and save()'s validation
UrAssign(p, pr, resource) ==
    LET doc == ResourcePatched(resource, PatchOf(pr.req))
    IN IF ~ValidType(doc.type) THEN Respond(p, "ValidationError", NULL)
       ELSE Goto(p, [pr EXCEPT
                        !.resource = doc,
                        !.modified = {f \in DOMAIN resource : doc[f] # resource[f]},
                        !.pc = "ur_write"])

\* updateResource: the findOne, then the handler up to its next storage call
UrFind(p) ==
    LET pr == procs[p]
        req == pr.req
    IN /\ pr.pc = "ur_find"
       /\ UNCHANGED <<Store, begun>>
       /\ IF ~FindOneResource(resources, req.id, req.user)
          THEN Respond(p, "NotFound", NULL)
          ELSE LET resource == resources[req.id]
               IN IF FolderChanging(resource, req.parentId) /\ req.parentId # NULL
                  THEN Goto(p, [pr EXCEPT !.resource = resource, !.pc = "ur_folder"])
                  ELSE UrAssign(p, pr, resource)

\* updateResource: the lookup of the new folder
UrFolder(p) ==
    LET pr == procs[p]
        req == pr.req
    IN /\ pr.pc = "ur_folder"
       /\ UNCHANGED <<Store, begun>>
       /\ IF ~FindOneFolder(folders, req.parentId, req.user)
          THEN Respond(p, "NotFound", NULL)
          ELSE UrAssign(p, pr, pr.resource)

\* save() of a loaded resource: updateOne({ _id }, { $set: modified paths })
UrWrite(p) ==
    LET pr == procs[p]
        id == pr.req.id
    IN /\ pr.pc = "ur_write"
       /\ UNCHANGED <<folders, nextFolderId, nextResourceId, begun>>
       /\ IF pr.modified = {}
          THEN Respond(p, "ok", id) /\ UNCHANGED resources
          ELSE IF id \notin DOMAIN resources
          THEN Respond(p, "ServerError", NULL) /\ UNCHANGED resources
          ELSE /\ resources' =
                      [resources EXCEPT ![id] =
                          [f \in DOMAIN resources[id] |->
                              IF f \in pr.modified THEN pr.resource[f]
                              ELSE resources[id][f]]]
               /\ Respond(p, "ok", id)

\* deleteResource: findOneAndDelete
DrDelete(p) ==
    LET pr == procs[p]
        r == DeleteResourceResult(folders, resources, pr.req.user, pr.req.id)
    IN /\ pr.pc = "dr_delete"
       /\ resources' = r.resources
       /\ Respond(p, r.outcome, pr.req.id)
       /\ UNCHANGED <<folders, nextFolderId, nextResourceId, begun>>

\* no read has been served
NoAnswer == [op |-> "none"]

\* ---------------------------------------------------------- specifications

Init ==
    /\ folders = <<>>
    /\ resources = <<>>
    /\ nextFolderId = 1
    /\ nextResourceId = 1
    /\ resp = [op |-> "none", outcome |-> "none", id |-> NULL]
    /\ procs = [p \in Procs |-> IdleProc]
    /\ begun = [p \in Procs |-> 0]
    /\ answer = NoAnswer

\* Spec: every handler runs from request to response before the next begins
Next ==
    \/ \E u \in Users, name \in Names, parentId \in {NULL} \cup FolderIds :
           CreateFolder(u, name, parentId)
    \/ \E u \in Users, id \in FolderIds, parentId \in {Absent, NULL} \cup FolderIds,
          name \in {NoName} \cup Names :
           UpdateFolder(u, id, parentId, name)
    \/ \E u \in Users, id \in FolderIds, force \in BOOLEAN :
           DeleteFolder(u, id, force)
    \/ \E u \in Users, type \in TypeInputs, folderId \in {NULL} \cup FolderIds,
          bodyUserId \in {Absent} \cup Users :
           CreateResource(u, type, folderId, bodyUserId)
    \/ \E u \in Users, id \in ResourceIds, patch \in ResourcePatches :
           UpdateResource(u, id, patch)
    \/ \E u \in Users, id \in ResourceIds :
           DeleteResource(u, id)

Spec == Init /\ [][Next]_vars

\* before the first request of a connection the store is filled by creations
\* served one at a time
NoneBegun == \A p \in Procs : begun[p] = 0

PopulateFolder(U) ==
    /\ NoneBegun
    /\ \E u \in U, name \in Names, parentId \in {NULL} \cup FolderIds :
           CreateFolder(u, name, parentId)

PopulateResource(U, types, bodyUsers) ==
    /\ NoneBegun
    /\ \E u \in U, type \in types, folderId \in {NULL} \cup FolderIds,
          bodyUserId \in bodyUsers :
           CreateResource(u, type, folderId, bodyUserId)

\* one storage call of a deleteFolder request
DeleteStep(p) ==
    DfFind(p) \/ DfEmpty(p) \/ DfResources(p) \/ DfChildren(p) \/ DfRemove(p)

\* one storage call of the request process p serves
Step(p) ==
    \/ CfStart(p) \/ Hook(p) \/ CfInsert(p)
    \/ UfFind(p) \/ UfWalk(p) \/ UfParent(p) \/ UfWrite(p)
    \/ DeleteStep(p)
    \/ CrStart(p) \/ CrInsert(p)
    \/ UrFind(p) \/ UrFolder(p) \/ UrWrite(p)
    \/ DrDelete(p)

\* SpecDelete: a deleteFolder request, alone, seen between its storage calls
NextDelete ==
    \/ PopulateFolder(Users)
    \/ PopulateResource(Users, TypeInputs, {Absent} \cup Users)
    \/ \E req \in DeleteRequests : Begin(1, req)
    \/ DeleteStep(1)

SpecDelete == Init /\ [][NextDelete]_vars

\* SpecConc: the requests of one user's two connections interleave at every await
SeedFolder == nextFolderId <= MaxSeedFolders /\ PopulateFolder({ConcUser})

NextConc ==
    \/ SeedFolder
    \/ PopulateResource({ConcUser}, {"note"}, {Absent})
    \/ \E p \in Procs, req \in ConcRequests : Begin(p, req)
    \/ \E p \in Procs : Step(p)

SpecConc == Init /\ [][NextConc]_vars

\* ------------------------------------------------ SpecQuery: one read served

\* the session user who owns the folders of SpecQuery and asks for the listings
ListedUser == 1

\* the tags requests carry, as character sequences
React == <<"r", "e", "a", "c", "t">>
Vue == <<"v", "u", "e">>
ReactCapital == <<"R", "e", "a", "c", "t">>
ReactSpace == <<"r", "e", "a", "c", "t", " ">>

\* the tags arrays of request bodies
TagInputs ==
    {<<>>, <<ReactCapital>>, <<Vue>>, <<React, Vue>>,
     <<ReactCapital, ReactSpace, React>>}

\* the bodies of the createResource requests of SpecQuery: a body carries at
\* most one of folderId, tags and favorite, or the tags ['React'] and favorite
ListedBodies ==
    {b \in [type : {"bookmark", "note"}, folderId : {NULL} \cup (1..MaxListedFolders),
            tags : TagInputs, favorite : BOOLEAN] :
        \/ b.tags = <<>> /\ ~b.favorite
        \/ b.folderId = NULL /\ ~b.favorite
        \/ b.folderId = NULL /\ b.tags = <<>>
        \/ b.folderId = NULL /\ b.tags = <<ReactCapital>>}

\* the tags parameter of a listing: missing, 'react', 'React, vue'
TagQueries == {<<>>, React, ReactCapital \o <<",", " ">> \o Vue}

\* the fields of type, folderId, favorite and tags a query carries
Given(q) ==
    {f \in {"type", "favorite"} : q[f] # NoName}
        \cup (IF q.folderId # Absent THEN {"folderId"} ELSE {})
        \cup (IF q.tags # <<>> \/ q.tagList # {} THEN {"tags"} ELSE {})

\* the listings of SpecQuery: at most two of type, folderId, favorite and tags
\* (tags as one string or as a repeated parameter); page and limit come
\* together, with a type or alone
Queries ==
    {q \in [type : {NoName, "note", "bogus"},
            folderId : {Absent, RootSentinel, NullSentinel} \cup (1..MaxListedFolders),
            favorite : {NoName, "true", "false"},
            tags : TagQueries,
            tagList : {{}, {<<Vue>>}},
            page : {Absent} \cup (1..MaxPage),
            limit : {Absent} \cup (1..MaxLimit)] :
        /\ q.tags = <<>> \/ q.tagList = {}
        /\ Cardinality(Given(q)) <= 2
        /\ (q.page = Absent) = (q.limit = Absent)
        /\ q.page # Absent => Given(q) \subseteq {"type"}}

Unanswered == answer = NoAnswer

\* a read is served: nothing but the response is left behind
Read(a) ==
    /\ Unanswered
    /\ answer' = a
    /\ UNCHANGED <<folders, resources, nextFolderId, nextResourceId, resp, procs, begun>>

GetResources(u, q) == Read(GetResourcesResult(resources, u, q))

GetResourceById(u, id) == Read(GetResourceByIdResult(resources, u, id))

GetFolderById(u, id) == Read(GetFolderByIdResult(folders, u, id))

GetStats(u) == Read(GetStatsResult(resources, u))

\* the folder resources are filed in
ListedFolder ==
    /\ Unanswered
    /\ nextFolderId <= MaxListedFolders
    /\ CreateFolder(ListedUser, "Work", NULL)

\* the resources the read is served on, created once the folders are
ListedResource ==
    /\ Unanswered
    /\ nextFolderId > MaxListedFolders
    /\ nextResourceId <= MaxListed
    /\ \E u \in Users, b \in ListedBodies :
           Serve("createResource",
                 CreateResourceFull(folders, resources, nextResourceId, u, b.type,
                                    b.folderId, Absent, b.tags, b.favorite))

NextQuery ==
    \/ ListedFolder
    \/ ListedResource
    \/ \E q \in Queries : GetResources(ListedUser, q)
    \/ \E u \in Users, id \in 1..MaxListed : GetResourceById(u, id)
    \/ \E u \in Users, id \in 1..MaxListedFolders : GetFolderById(u, id)
    \/ \E u \in Users : GetStats(u)

SpecQuery == Init /\ [][NextQuery]_vars

\* ----------------------- SpecStats: getStats among the same user's writes

\* the user whose stats are read
StatsUser == 1

\* getStats: Resource.aggregate and the sum
GsAggregate(u) ==
    /\ Unanswered
    /\ answer' = StatsAggregated(resources, u)
    /\ UNCHANGED <<folders, resources, nextFolderId, nextResourceId, resp, procs, begun>>

\* getStats: Resource.countDocuments and the response
GsFavorites ==
    /\ answer.op = "gs_favorites"
    /\ answer' = StatsCounted(resources, answer)
    /\ UNCHANGED <<folders, resources, nextFolderId, nextResourceId, resp, procs, begun>>

\* the stats have not been answered
StatsOpen == answer.op # "getStats"

\* a request on another connection: a creation (favorite is a body field), a
\* delete or a toggle
StatsCreate(u, type, favorite) ==
    /\ StatsOpen
    /\ nextResourceId <= MaxListed
    /\ Serve("createResource",
             CreateResourceFull(folders, resources, nextResourceId, u, type, NULL,
                                Absent, <<>>, favorite))

StatsDelete(u, id) ==
    /\ StatsOpen
    /\ Serve("deleteResource", DeleteResourceResult(folders, resources, u, id))

ToggleFavorite(u, id) ==
    /\ StatsOpen
    /\ Serve("toggleFavorite", ToggleFavoriteResult(folders, resources, u, id))

NextStats ==
    \/ GsAggregate(StatsUser)
    \/ GsFavorites
    \/ \E u \in Users, type \in {"bookmark", "note"}, favorite \in BOOLEAN :
           StatsCreate(u, type, favorite)
    \/ \E u \in Users, id \in 1..MaxListed : StatsDelete(u, id)
    \/ \E u \in Users, id \in 1..MaxListed : ToggleFavorite(u, id)

SpecStats == Init /\ [][NextStats]_vars

\* ------------------------------------- SpecWalk: moves in a store of MaxTree

\* the names of the folders of SpecWalk, one per folder
WalkName(id) ==
    IF id = 1 THEN "Work" ELSE IF id = 2 THEN "Projects"
    ELSE IF id = 3 THEN "Inbox" ELSE IF id = 4 THEN "Notes" ELSE "Archive"

\* every parent chain of fs ends at null within as many steps as fs has folders
RECURSIVE EndsAtNull(_, _, _)
EndsAtNull(fs, id, steps) ==
    \/ id = NULL
    \/ steps > 0 /\ id \in DOMAIN fs /\ EndsAtNull(fs, fs[id].parentId, steps - 1)

\* the stores SpecWalk starts from: MaxTree folders of one user in any
\* acyclic arrangement
WalkStores ==
    {[id \in 1..MaxTree |->
         [userId |-> ListedUser, parentId |-> parent[id], name |-> WalkName(id)]] :
     parent \in {f \in [1..MaxTree -> {NULL} \cup (1..MaxTree)] :
                    \A id \in 1..MaxTree :
                        EndsAtNull([i \in 1..MaxTree |-> [parentId |-> f[i]]],
                                   id, MaxTree)}}

InitWalk ==
    /\ folders \in WalkStores
    /\ resources = <<>>
    /\ nextFolderId = MaxTree + 1
    /\ nextResourceId = 1
    /\ resp = [op |-> "none", outcome |-> "none", id |-> NULL]
    /\ procs = [p \in Procs |-> IdleProc]
    /\ begun = [p \in Procs |-> 0]
    /\ answer = NoAnswer

\* a move of the owner's folder id under parentId
Move(id, parentId) == UpdateFolder(ListedUser, id, parentId, NoName)

NextWalk == \E id \in 1..MaxTree, parentId \in {NULL} \cup (1..MaxTree) : Move(id, parentId)

SpecWalk == InitWalk /\ [][NextWalk]_vars

\* --------------------------------------- SpecTerm: interleaved moves, to the end

\* the moves of SpecTerm: a folder of ConcUser under another
MoveRequests ==
    {Request("updateFolder", ConcUser, id, parentId, NoName, FALSE, NoName, Absent) :
        id \in FolderIds, parentId \in FolderIds}

\* a move arrives at process p
BeginMove(p, req) ==
    /\ procs[p].pc = "idle"
    /\ begun[p] < MaxMoves
    /\ nextFolderId > MaxFolders
    /\ procs' = [procs EXCEPT ![p] = [IdleProc EXCEPT !.pc = FirstPc(req.op),
                                                      !.req = req]]
    /\ begun' = [begun EXCEPT ![p] = @ + 1]
    /\ UNCHANGED <<folders, resources, nextFolderId, nextResourceId, resp, answer>>

\* the while loop of getDescendantIds past MaxWalk entries: the loop goes on
\* as before; of the list, which no longer fits an acyclic store, the first
\* MaxWalk entries are kept
UfWalkOn(p) ==
    LET pr == procs[p]
        w == BfsIter(folders, pr.w)
    IN /\ pr.pc = "uf_walk"
       /\ Len(pr.w.descendants) >= MaxWalk
       /\ UNCHANGED <<Store, begun>>
       /\ IF w.queue # <<>>
          THEN Goto(p, [pr EXCEPT !.w = [w EXCEPT !.descendants =
                                                      SubSeq(@, 1, MaxWalk)]])
          ELSE IF pr.req.parentId \in Range(w.descendants)
          THEN Respond(p, "InvalidOperation", NULL)
          ELSE Goto(p, [pr EXCEPT !.w = NoWalk, !.pc = "uf_parent"])

\* one storage call of the move process p serves
MoveStep(p) ==
    UfFind(p) \/ UfWalk(p) \/ UfWalkOn(p) \/ UfParent(p) \/ Hook(p) \/ UfWrite(p)

\* the folders the moves are about: root folders of ConcUser
SeedRoot ==
    /\ nextFolderId <= MaxFolders
    /\ CreateFolder(ConcUser, WalkName(nextFolderId), NULL)

NextTerm ==
    \/ SeedRoot
    \/ \E p \in Procs, req \in MoveRequests : BeginMove(p, req)
    \/ \E p \in Procs : MoveStep(p)

\* every handler that can take a step takes it
SpecTerm ==
    Init /\ [][NextTerm]_vars /\ \A p \in Procs : WF_vars(MoveStep(p))

\* ---------------------------------- SpecValidate: creations with type fields

\* the url and content values request bodies carry: none, '', 'u'
FieldInputs == {{}, {<<>>}, {<<"u">>}}

CreateValidated(u, type, url, content) ==
    /\ nextResourceId <= MaxListed
    /\ Serve("createResource",
             CreateResourceValidated(folders, resources, nextResourceId, u, type,
                                     url, content))

NextValidate ==
    \E u \in Users, type \in RESOURCE_TYPES \cup {"bogus"}, url \in FieldInputs,
       content \in FieldInputs :
        CreateValidated(u, type, url, content)

SpecValidate == Init /\ [][NextValidate]_vars

\* ------------------------------------------------------------ properties

\* the ancestor chain walked up from f: it stays inside the collection, visits
\* no folder twice and stops at a folder whose parentId is null
RECURSIVE ChainEndsAtRoot(_, _, _)
ChainEndsAtRoot(fs, f, seen) ==
    IF f = NULL THEN TRUE
    ELSE IF f \notin DOMAIN fs \/ f \in seen THEN FALSE
    ELSE ChainEndsAtRoot(fs, fs[f].parentId, seen \cup {f})

Forest(fs) == \A f \in DOMAIN fs : ChainEndsAtRoot(fs, f, {})

\* the stored folders met walking up from f (f itself only if a cycle leads back)
RECURSIVE AncestorsFrom(_, _, _)
AncestorsFrom(fs, f, seen) ==
    LET p == IF f \in DOMAIN fs THEN fs[f].parentId ELSE NULL
    IN IF p = NULL \/ p \in seen THEN seen
       ELSE AncestorsFrom(fs, p, seen \cup {p})

Ancestors(fs, f) == AncestorsFrom(fs, f, {})

\* some folder sits two levels below a root
Nested2(fs) ==
    \E f \in DOMAIN fs :
        /\ fs[f].parentId \in DOMAIN fs
        /\ fs[fs[f].parentId].parentId \in DOMAIN fs

\* C1: run one at a time, folder create, rename, move and delete leave every
\* folder with a finite parent chain that revisits no folder and ends at a
\* root (parentId null)
C1_ParentChainsEndAtRoot == Forest(folders)

\* a forced or plain delete has succeeded and nested folders remain
C1_Witness ==
    /\ resp.op = "deleteFolder"
    /\ resp.outcome = "ok"
    /\ \E f \in DOMAIN folders : folders[f].parentId # NULL

\* C4: move(F, P) with P = F or P a transitive descendant of F answers
\* InvalidOperation and leaves both collections as they were
C4_MoveIntoSubtreeRefused ==
    \A u \in Users, id \in DOMAIN folders, p \in DOMAIN folders,
       name \in {NoName} \cup Names :
        (FindOneFolder(folders, id, u) /\ (p = id \/ id \in Ancestors(folders, p)))
            => UpdateFolderResult(folders, resources, u, id, p, name)
                   = Result("InvalidOperation", folders, resources, NULL)

\* a move has just been refused in a store that holds a grandchild
C4_Witness ==
    /\ resp.op = "updateFolder"
    /\ resp.outcome = "InvalidOperation"
    /\ Nested2(folders)

\* C5: every resource with a folderId references a stored folder of its owner
C5_ResourceFolderOwned ==
    \A r \in DOMAIN resources :
        resources[r].folderId # NULL =>
            /\ resources[r].folderId \in DOMAIN folders
            /\ folders[resources[r].folderId].userId = resources[r].userId

\* the step is a request of caller u
RequestBy(u) ==
    \/ \E name \in Names, parentId \in {NULL} \cup FolderIds :
           CreateFolder(u, name, parentId)
    \/ \E id \in FolderIds, parentId \in {Absent, NULL} \cup FolderIds,
          name \in {NoName} \cup Names :
           UpdateFolder(u, id, parentId, name)
    \/ \E id \in FolderIds, force \in BOOLEAN : DeleteFolder(u, id, force)
    \/ \E type \in TypeInputs, folderId \in {NULL} \cup FolderIds,
          bodyUserId \in {Absent} \cup Users :
           CreateResource(u, type, folderId, bodyUserId)
    \/ \E id \in ResourceIds, patch \in ResourcePatches : UpdateResource(u, id, patch)
    \/ \E id \in ResourceIds : DeleteResource(u, id)

\* the step creates only entities of u, modifies or removes only entities that
\* were u's, and changes no entity's userId
OwnedBy(u) ==
    /\ \A f \in DOMAIN folders' \ DOMAIN folders : folders'[f].userId = u
    /\ \A r \in DOMAIN resources' \ DOMAIN resources : resources'[r].userId = u
    /\ \A f \in DOMAIN folders :
           (f \notin DOMAIN folders' \/ folders'[f] # folders[f])
               => folders[f].userId = u
    /\ \A r \in DOMAIN resources :
           (r \notin DOMAIN resources' \/ resources'[r] # resources[r])
               => resources[r].userId = u
    /\ \A f \in DOMAIN folders \cap DOMAIN folders' :
           folders'[f].userId = folders[f].userId
    /\ \A r \in DOMAIN resources \cap DOMAIN resources' :
           resources'[r].userId = resources[r].userId

\* C6: whatever the body carries, a request of caller U creates entities of U
\* only, touches entities of U only and changes no userId
C6_WritesScopedToCaller == [][\A u \in Users : RequestBy(u) => OwnedBy(u)]_vars

\* C7: an update never changes a resource's type, and a patch whose type
\* differs from the stored one is rejected
C7_TypeFixedAtCreation ==
    [][\A u \in Users, id \in ResourceIds, patch \in ResourcePatches :
          (FindOneResource(resources, id, u) /\ UpdateResource(u, id, patch))
              => /\ resources'[id].type = resources[id].type
                 /\ (patch.type \notin {NoName, resources[id].type}
                         => resp'.outcome # "ok")]_vars

\* what delete(id, force = true) must leave, from the folder's last stored state
ForcedDeletePost(id) ==
    /\ id \notin DOMAIN folders'
    /\ \A c \in DOMAIN folders' : folders'[c].parentId # id
    /\ \A r \in DOMAIN resources' : resources'[r].folderId # id
    /\ \A c \in DOMAIN folders :
           folders[c].parentId = id
               => c \in DOMAIN folders' /\ folders'[c].parentId = folders[id].parentId
    /\ \A r \in DOMAIN resources :
           resources[r].folderId = id
               => /\ r \in DOMAIN resources'
                  /\ resources'[r].folderId = folders[id].parentId

\* C8: after delete(F, force = true) by F's owner, F is gone, nothing
\* references F, and F's former children and resources reference F's parent
C8_ForcedDeleteReparents ==
    [][\A u \in Users, id \in FolderIds :
          (FindOneFolder(folders, id, u) /\ DeleteFolder(u, id, TRUE))
              => ForcedDeletePost(id)]_vars

\* C9: delete(F, force = false) of a folder with a child folder or a resource
\* answers NotEmpty and leaves both collections as they were
C9_PlainDeleteOfNonEmptyRefused ==
    \A u \in Users, id \in DOMAIN folders :
        (/\ FindOneFolder(folders, id, u)
         /\ \/ \E c \in DOMAIN folders : folders[c].parentId = id
            \/ \E r \in DOMAIN resources : resources[r].folderId = id)
            => DeleteFolderResults(folders, resources, u, id, FALSE)
                   = {Result("NotEmpty", folders, resources, NULL)}

\* a plain delete has just been refused; a folder holds a child and a resource
C9_Witness ==
    /\ resp.op = "deleteFolder"
    /\ resp.outcome = "NotEmpty"
    /\ \E f \in DOMAIN folders :
           /\ \E c \in DOMAIN folders : folders[c].parentId = f
           /\ \E r \in DOMAIN resources : resources[r].folderId = f

\* no folder is met again on the walk up from itself
NoCycle(fs) == \A f \in DOMAIN fs : f \notin Ancestors(fs, f)

\* every parentId and folderId that is set names a stored folder
NoDanglingRefs(fs, rs) ==
    /\ \A f \in DOMAIN fs : fs[f].parentId # NULL => fs[f].parentId \in DOMAIN fs
    /\ \A r \in DOMAIN rs : rs[r].folderId # NULL => rs[r].folderId \in DOMAIN fs

AllIdle == \A p \in Procs : procs[p].pc = "idle"

\* C2: moves of one user's folders whose reads and writes interleave leave the
\* folders free of cycles (of two mutually cycle-forming moves one is refused)
C2_InterleavedMovesKeepAcyclic == NoCycle(folders)

\* C3: when delete(P) races with a move into P, a creation under P or a
\* resource filed into P, the loser fails: once all requests are answered no
\* folder or resource references a removed folder
C3_RaceLoserFails == AllIdle => NoDanglingRefs(folders, resources)

\* every stored ancestor of a folder has the folder's userId
SameOwnerAncestors(fs) ==
    \A f \in DOMAIN fs : \A a \in Ancestors(fs, f) \cap DOMAIN fs :
        fs[a].userId = fs[f].userId

\* siblings (same userId and parentId) have pairwise distinct names
UniqueSiblingNames(fs) ==
    \A f, g \in DOMAIN fs :
        (f # g /\ fs[f].userId = fs[g].userId /\ fs[f].parentId = fs[g].parentId)
            => fs[f].name # fs[g].name

\* a resource's folder is stored and has the resource's userId
ResourceFoldersOwned(fs, rs) ==
    \A r \in DOMAIN rs :
        rs[r].folderId # NULL =>
            rs[r].folderId \in DOMAIN fs /\ fs[rs[r].folderId].userId = rs[r].userId

\* the step keeps each data-model invariant that held before it
KeepsDataModel ==
    /\ Forest(folders) => Forest(folders')
    /\ SameOwnerAncestors(folders) => SameOwnerAncestors(folders')
    /\ UniqueSiblingNames(folders) => UniqueSiblingNames(folders')
    /\ ResourceFoldersOwned(folders, resources)
           => ResourceFoldersOwned(folders', resources')

\* reparent resources, then child folders, then remove: child folders move
\* only out of a folder no resource is filed in, and a folder is removed only
\* when nothing references it
ReparentThenRemove ==
    \A id \in DOMAIN folders :
        /\ (\E c \in DOMAIN folders :
               /\ folders[c].parentId = id
               /\ c \in DOMAIN folders'
               /\ folders'[c].parentId # id)
               => \A r \in DOMAIN resources : resources[r].folderId # id
        /\ id \notin DOMAIN folders' => IsEmpty(folders, resources, id)

\* C10: a forced delete writes in the order resources, child folders, folder;
\* after each write, also the last one before a failure, nothing references a
\* folder missing from the store and the data-model invariants are kept
C10_DeleteStepsKeepModel ==
    [][~NoneBegun =>
          /\ ReparentThenRemove
          /\ NoDanglingRefs(folders', resources')
          /\ KeepsDataModel]_vars

\* a forced delete has stopped at a refused child move: the folder and a child
\* are still stored
C10_Witness ==
    /\ begun[1] = 1
    /\ procs[1].pc = "idle"
    /\ resp.op = "deleteFolder"
    /\ resp.outcome = "ServerError"
    /\ \E f, c \in DOMAIN folders : folders[c].parentId = f

\* some folder other than id is user u's, lies under parentId and is called name
SiblingNamed(fs, id, u, parentId, name) ==
    \E o \in DOMAIN fs \ {id} :
        fs[o].userId = u /\ fs[o].parentId = parentId /\ fs[o].name = name

\* create, rename and move answer Conflict when the folder would get a
\* same-named sibling
WritesAnswerConflict ==
    /\ \A u \in Users, name \in Names, parentId \in {NULL} \cup DOMAIN folders :
           (/\ parentId # NULL => FindOneFolder(folders, parentId, u)
            /\ SiblingNamed(folders, nextFolderId, u, parentId, name))
               => CreateFolderResult(folders, resources, nextFolderId, u, name,
                                     parentId).outcome = "Conflict"
    /\ \A u \in Users, id \in DOMAIN folders, name \in Names :
           (/\ FindOneFolder(folders, id, u)
            /\ SiblingNamed(folders, id, u, folders[id].parentId, name))
               => UpdateFolderResult(folders, resources, u, id, Absent,
                                     name).outcome = "Conflict"
    /\ \A u \in Users, id \in DOMAIN folders, parentId \in {NULL} \cup DOMAIN folders :
           (/\ FindOneFolder(folders, id, u)
            /\ parentId # NULL => FindOneFolder(folders, parentId, u)
            /\ parentId # id /\ id \notin Ancestors(folders, parentId)
            /\ SiblingNamed(folders, id, u, parentId, folders[id].name))
               => UpdateFolderResult(folders, resources, u, id, parentId,
                                     NoName).outcome = "Conflict"

\* the forced delete of id would move a child next to a same-named folder
\* other than id
DeleteWouldCollide(fs, id) ==
    \E c \in ChildrenOf(fs, id) :
        SiblingNamed([o \in DOMAIN fs \ {id} |-> fs[o]], c, fs[c].userId,
                     fs[id].parentId, fs[c].name)

\* C11: two distinct folders of one user under one parent (null included)
\* never have the same name, and a create, rename, move or forced delete that
\* would give a folder a same-named sibling answers Conflict
C11_SiblingNamesUnique ==
    /\ UniqueSiblingNames(folders)
    /\ WritesAnswerConflict
    /\ \A u \in Users, id \in DOMAIN folders :
           (FindOneFolder(folders, id, u) /\ DeleteWouldCollide(folders, id))
               => \A r \in DeleteFolderResults(folders, resources, u, id, TRUE) :
                      r.outcome = "Conflict"

\* C12: after folder creates, moves and deletes every ancestor of a folder has
\* the folder's userId, and a create or a move whose parent id is another
\* user's folder answers NotFound and changes nothing
C12_AncestorsSameOwner ==
    /\ SameOwnerAncestors(folders)
    /\ \A u \in Users, parentId \in DOMAIN folders :
           folders[parentId].userId # u =>
               /\ \A name \in Names :
                      CreateFolderResult(folders, resources, nextFolderId, u, name,
                                         parentId)
                          = Result("NotFound", folders, resources, NULL)
               /\ \A id \in DOMAIN folders, name \in {NoName} \cup Names :
                      FindOneFolder(folders, id, u) =>
                          UpdateFolderResult(folders, resources, u, id, parentId, name)
                              = Result("NotFound", folders, resources, NULL)

\* every folder id is in use, both users own folders, one of them nested, and
\* a move has just been answered NotFound: the target or the parent was
\* another user's
C12_Witness ==
    /\ resp.op = "updateFolder"
    /\ resp.outcome = "NotFound"
    /\ DOMAIN folders = FolderIds
    /\ \A u \in Users : \E f \in DOMAIN folders : folders[f].userId = u
    /\ \E f \in DOMAIN folders : folders[f].parentId # NULL

\* the collection without the entity id
Without(coll, id) == [i \in DOMAIN coll \ {id} |-> coll[i]]

\* get, update, delete and toggleFavorite by u on resource id answer NotFound
\* and leave the store rs as it is
ResourceNotFound(fs, rs, u, id) ==
    /\ GetResourceByIdResult(rs, u, id).outcome = "NotFound"
    /\ GetResourceByIdResult(rs, u, id).found = NULL
    /\ \A patch \in ResourcePatches :
           UpdateResourceResult(fs, rs, u, id, patch) = Result("NotFound", fs, rs, NULL)
    /\ DeleteResourceResult(fs, rs, u, id) = Result("NotFound", fs, rs, NULL)
    /\ ToggleFavoriteResult(fs, rs, u, id) = Result("NotFound", fs, rs, NULL)

\* get, update and delete by u on folder id answer NotFound and leave the
\* store as it is
FolderNotFound(fs, rs, u, id) ==
    /\ GetFolderByIdResult(fs, u, id).outcome = "NotFound"
    /\ GetFolderByIdResult(fs, u, id).found = NULL
    /\ \A parentId \in {Absent, NULL} \cup FolderIds, name \in {NoName} \cup Names :
           UpdateFolderResult(fs, rs, u, id, parentId, name)
               = Result("NotFound", fs, rs, NULL)
    /\ \A force \in BOOLEAN :
           DeleteFolderResults(fs, rs, u, id, force)
               = {Result("NotFound", fs, rs, NULL)}

\* C13: a request on an id that is another user's entity gets the response,
\* NotFound, that the same request gets when the id is no entity at all, and
\* both leave the store unchanged
C13_ForeignLooksMissing ==
    \A u \in Users :
        /\ \A id \in DOMAIN resources :
               resources[id].userId # u =>
                   /\ ResourceNotFound(folders, resources, u, id)
                   /\ ResourceNotFound(folders, Without(resources, id), u, id)
        /\ \A id \in DOMAIN folders :
               folders[id].userId # u =>
                   /\ FolderNotFound(folders, resources, u, id)
                   /\ FolderNotFound(Without(folders, id), resources, u, id)

\* every resource id is in use and a delete has just been answered NotFound:
\* its target was another user's resource
C13_Witness ==
    /\ resp.op = "deleteResource"
    /\ resp.outcome = "NotFound"
    /\ DOMAIN resources = ResourceIds
    /\ DOMAIN folders # {}

\* ------------------------------------------------------------- the listing

\* the resources of u in the store
Own(rs, u) == [i \in {j \in DOMAIN rs : rs[j].userId = u} |-> rs[i]]

\* a listing has been answered
Listing == answer.op = "getResources"

\* the ids the answered listing returned
Listed == {answer.resources[k] : k \in 1..Len(answer.resources)}

\* the ids the listing selects when field f of the query is left out, all
\* of them on one page
SelectedWithout(f, missing) ==
    LET r == GetResourcesResult(resources, answer.user,
                                [answer.query EXCEPT ![f] = missing,
                                                     !.page = Absent,
                                                     !.limit = Absent])
    IN {r.resources[k] : k \in 1..Len(r.resources)}

\* C14: the listing returns and counts, and the stats count, only resources
\* of the requesting user: the answer is the one the user's own resources
\* alone give, whatever other users' resources match the other filter fields
C14_OnlyOwnResources ==
    /\ Listing =>
           /\ \A i \in Listed : resources[i].userId = answer.user
           /\ answer = GetResourcesResult(Own(resources, answer.user),
                                          answer.user, answer.query)
    /\ answer.op = "getStats" =>
           answer = GetStatsResult(Own(resources, answer.user), answer.user)

\* a listing that returned something while another user's resource matched
\* every filter field but the owner
C14_Witness ==
    /\ Listing
    /\ answer.total >= 1
    /\ \E i \in DOMAIN resources :
           /\ resources[i].userId # answer.user
           /\ MatchesFilter(resources[i],
                            BuildFilter(resources[i].userId, answer.query))

\* the tags a query asks for, trimmed and lowercased
WantedTags(q) ==
    IF q.tagList # {} THEN Range(QueryTags(CHOOSE l \in q.tagList : TRUE))
    ELSE IF q.tags # <<>> THEN Range(QueryTags(Split(q.tags)))
    ELSE {}

\* doc is a resource of u satisfying every filter field q supplies: a type
\* of the closed set, a folder id or the sentinel, favorite true or false, tags
Satisfies(doc, u, q) ==
    /\ doc.userId = u
    /\ q.type \in RESOURCE_TYPES => doc.type = q.type
    /\ q.folderId \in {RootSentinel, NullSentinel} => doc.folderId = NULL
    /\ q.folderId \notin {Absent, RootSentinel, NullSentinel} =>
           doc.folderId = q.folderId
    /\ q.favorite = "true" => doc.favorite
    /\ q.favorite = "false" => ~doc.favorite
    /\ "tags" \in Given(q) => Range(doc.tags) \cap WantedTags(q) # {}

\* the resources satisfying the query of the answered listing
Matches ==
    {i \in DOMAIN resources : Satisfies(resources[i], answer.user, answer.query)}

\* total is the number of matches, the page holds the matches of rank
\* (page-1)*limit+1 .. page*limit newest first, pages is ceil(total/limit)
PageOfMatches(matches) ==
    LET skip == (answer.page - 1) * answer.limit
        rest == Cardinality(matches) - skip
        size == IF rest <= 0 THEN 0
                ELSE IF rest < answer.limit THEN rest ELSE answer.limit
    IN /\ answer.total = Cardinality(matches)
       /\ Len(answer.resources) = size
       /\ \A k \in 1..size :
              /\ answer.resources[k] \in matches
              /\ Cardinality({j \in matches :
                                 resources[j].createdAt
                                     > resources[answer.resources[k]].createdAt})
                     = skip + k - 1
       /\ answer.pages * answer.limit >= answer.total
       /\ (answer.pages - 1) * answer.limit < answer.total

\* C15: for every filter, page >= 1 and limit >= 1, total is the number of
\* the caller's resources satisfying the filter, the page is the elements
\* (page-1)*limit+1 .. page*limit of them newest first, and pages is
\* ceil(total/limit)
C15_TotalAndPage == Listing => PageOfMatches(Matches)

\* C16: a favorite filter of value true or false returns exactly the
\* resources, among those the other filter fields select, whose favorite flag
\* is that value
C16_FavoriteExactMatch ==
    Listing /\ answer.query.favorite \in {"true", "false"} =>
        Listed = {i \in SelectedWithout("favorite", NoName) :
                     resources[i].favorite = (answer.query.favorite = "true")}

\* every listed resource has the type the query asks for and total counts
\* the resources of that type the other filter fields select
ListedHaveType ==
    /\ \A i \in Listed : resources[i].type = answer.query.type
    /\ answer.total = Cardinality({i \in SelectedWithout("type", NoName) :
                                      resources[i].type = answer.query.type})

\* C17 as stated: whenever a type filter value is supplied, every listed
\* resource has that type and total counts only such resources
C17_AnyTypeValue == Listing /\ answer.query.type # NoName => ListedHaveType

\* C17: whenever a type filter value of the closed set of types is supplied,
\* every listed resource has that type and total counts only such resources
C17_TypeExactMatch ==
    Listing /\ answer.query.type \in RESOURCE_TYPES => ListedHaveType

\* a listing by type that returned something while the caller had a resource
\* of another type
C17_Witness ==
    /\ Listing
    /\ answer.query.type \in RESOURCE_TYPES
    /\ answer.total >= 1
    /\ \E i \in SelectedWithout("type", NoName) :
           resources[i].type # answer.query.type

\* the store with every resource unfiled
Unfiled(rs) == [i \in DOMAIN rs |-> [rs[i] EXCEPT !.folderId = NULL]]

\* C18: a folder id returns only the resources filed in that folder, the
\* sentinel "root" or "null" only the unfiled ones, and without folderId the
\* listing does not depend on where resources are filed
C18_FolderModes ==
    Listing =>
        LET folderId == answer.query.folderId
        IN /\ folderId \notin {Absent, RootSentinel, NullSentinel} =>
                  Listed = {i \in SelectedWithout("folderId", Absent) :
                               resources[i].folderId = folderId}
           /\ folderId \in {RootSentinel, NullSentinel} =>
                  Listed = {i \in SelectedWithout("folderId", Absent) :
                               resources[i].folderId = NULL}
           /\ folderId = Absent =>
                  answer = GetResourcesResult(Unfiled(resources), answer.user,
                                              answer.query)

\* a listing of a folder that returned something while the caller had an
\* unfiled resource
C18_Witness ==
    /\ Listing
    /\ answer.query.folderId \in DOMAIN folders
    /\ answer.total >= 1
    /\ \E i \in SelectedWithout("folderId", Absent) : resources[i].folderId = NULL

\* C19: with a tags filter a resource is returned if and only if it has one
\* of the trimmed, lowercased filter tags and satisfies every other filter
\* field the query supplies
C19_TagsAnyOf ==
    Listing /\ "tags" \in Given(answer.query) => Listed = Matches

\* C20: the stored tags of every resource are trimmed and lowercase and no
\* tag occurs twice
C20_TagsNormalisedAndDistinct ==
    \A id \in DOMAIN resources :
        LET tags == resources[id].tags
        IN /\ \A i \in 1..Len(tags) : tags[i] = ToLowerCase(Trim(tags[i]))
           /\ \A i, j \in 1..Len(tags) : tags[i] = tags[j] => i = j

\* ------------------------------------------------------ type-specific fields

\* the field a type requires: url for a bookmark, content for a prompt, a
\* snippet and a note
RequiredField(type) ==
    IF type = "bookmark" THEN {"url"}
    ELSE IF type \in {"prompt", "snippet", "note"} THEN {"content"}
    ELSE {}

\* the creation by u of a resource of the type whose required field has value
\* v, the other type field being absent
CreateWithField(u, type, v) ==
    CreateResourceValidated(folders, resources, nextResourceId, u, type,
                            IF type = "bookmark" THEN v ELSE {},
                            IF type = "bookmark" THEN {} ELSE v)

\* C21: creating a bookmark without url or with an empty one, or a prompt,
\* snippet or note without content or with an empty one, answers
\* ValidationError on that field and stores nothing; with the field non-empty
\* the creation succeeds and stores exactly one resource
C21_RequiredTypeFields ==
    \A u \in Users, type \in RESOURCE_TYPES :
        RequiredField(type) # {} =>
            /\ \A v \in {{}, {<<>>}} :
                   /\ CreateWithField(u, type, v)
                          = Result("ValidationError", folders, resources, NULL)
                   /\ ValidationErrors(type,
                                       IF type = "bookmark" THEN v ELSE {},
                                       IF type = "bookmark" THEN {} ELSE v)
                          = RequiredField(type)
            /\ LET r == CreateWithField(u, type, {<<"u">>})
               IN /\ r.outcome = "ok"
                  /\ DOMAIN r.resources = DOMAIN resources \cup {nextResourceId}
                  /\ nextResourceId \notin DOMAIN resources
                  /\ \A i \in DOMAIN resources : r.resources[i] = resources[i]

\* ----------------------------------------------------------------- the stats

\* the resources of the user of the answered stats request
OwnIds == {i \in DOMAIN resources : resources[i].userId = answer.user}

\* C22: the stats of user U give for each of the five types the number of
\* U's resources of that type, total is the sum of the five counts and the
\* number of U's resources, favorites is the number of U's favorite
\* resources, and favorites <= total
C22_StatsReconcile ==
    answer.op = "getStats" =>
        /\ DOMAIN answer.counts = RESOURCE_TYPES
        /\ \A t \in RESOURCE_TYPES :
               answer.counts[t] = Cardinality({i \in OwnIds : resources[i].type = t})
        /\ answer.total = answer.counts["bookmark"] + answer.counts["prompt"]
                            + answer.counts["snippet"] + answer.counts["document"]
                            + answer.counts["note"]
        /\ answer.total = Cardinality(OwnIds)
        /\ answer.favorites = Cardinality({i \in OwnIds : resources[i].favorite})
        /\ answer.favorites <= answer.total

\* stats answered for a user with resources of two types, one of them a
\* favorite and one not, while the other user has a resource too
C22_Witness ==
    /\ answer.op = "getStats"
    /\ answer.counts["bookmark"] >= 1
    /\ answer.counts["note"] >= 1
    /\ answer.counts["snippet"] = 0
    /\ answer.favorites >= 1
    /\ answer.favorites < answer.total
    /\ \E i \in DOMAIN resources : resources[i].userId # answer.user

\* C23: favorites <= total in every stats response, also when the same
\* user's creations, deletions and toggles fall between the two reads
C23_FavoritesAtMostTotal ==
    answer.op = "getStats" => answer.favorites <= answer.total

SingleLevel(fs, rs, id, r) ==
    /\ DOMAIN fs \ {id} \subseteq DOMAIN r.folders
    /\ DOMAIN r.folders \subseteq DOMAIN fs
    /\ DOMAIN r.resources = DOMAIN rs
    /\ \A c \in DOMAIN fs \ {id} :
           \/ r.folders[c] = fs[c]
           \/ /\ fs[c].parentId = id
              /\ r.folders[c] = [fs[c] EXCEPT !.parentId = fs[id].parentId]
    /\ \A x \in DOMAIN rs :
           \/ r.resources[x] = rs[x]
           \/ /\ rs[x].folderId = id
              /\ r.resources[x] = [rs[x] EXCEPT !.folderId = fs[id].parentId]
    /\ \A d \in DOMAIN fs :
           id \in Ancestors(fs, d) =>
               /\ Ancestors(r.folders, d) \ {id} = Ancestors(fs, d) \ {id}
               /\ r.outcome = "ok" => id \notin Ancestors(r.folders, d)

\* C24: a forced delete of F removes no folder other than F and no resource,
\* changes parentId only on F's children and folderId only on the resources
\* in F, leaves everything else as it was, and every former descendant of F
\* keeps its ancestor chain with F removed from it
C24_ForcedDeleteSingleLevel ==
    \A u \in Users, id \in DOMAIN folders :
        FindOneFolder(folders, id, u) =>
            \A r \in DeleteFolderResults(folders, resources, u, id, TRUE) :
                SingleLevel(folders, resources, id, r)

\* a delete has just removed a folder, and a folder with a child and a
\* resource remain
C24_Witness ==
    /\ resp.op = "deleteFolder"
    /\ resp.outcome = "ok"
    /\ resp.id \notin DOMAIN folders
    /\ \E c \in DOMAIN folders : folders[c].parentId \in DOMAIN folders
    /\ resources # <<>>

\* ------------------------------------------------------------ the tree listing

\* the tree of user u holds each of u's folders once and no other folder, the
\* root list holds the folders without parent, every other folder is in the
\* children list of its parent's node, and the tree holds the folders of the
\* flat list
TreeListsFolders(fs, u) ==
    LET tree == GetTree(fs, u)
        flat == FindByUser(fs, u)
    IN /\ \A id \in DOMAIN fs :
              OccursIn(tree, tree.roots, id) = IF fs[id].userId = u THEN 1 ELSE 0
       /\ \A id \in DOMAIN fs :
              fs[id].userId = u =>
                  /\ id \in Range(tree.roots) <=> fs[id].parentId = NULL
                  /\ fs[id].parentId # NULL =>
                         /\ fs[id].parentId \in DOMAIN tree.children
                         /\ id \in Range(tree.children[fs[id].parentId])
       /\ {id \in DOMAIN fs : OccursIn(tree, tree.roots, id) > 0} = Range(flat)
       /\ Len(flat) = Cardinality(Range(flat))

\* C26: in every state folder operations reach, the tree listing of user U
\* holds each of U's folders exactly once and no other user's folder, in the
\* root list if its parentId is null and else in the children list of its
\* parent, and the tree holds the same folders as the flat listing
C26_TreeListsEveryFolder == \A u \in Users : TreeListsFolders(folders, u)

\* ------------------------------------------------------------------ the walks

\* the number of steps from folder id up to folder top, one of its ancestors
RECURSIVE DepthBelow(_, _, _)
DepthBelow(fs, id, top) ==
    IF fs[id].parentId = top THEN 1 ELSE 1 + DepthBelow(fs, fs[id].parentId, top)

\* C27: getDescendantIds(F) is exactly the folders whose parent chain holds F,
\* each once and never F, in breadth-first order: a folder nearer to F comes
\* before a folder farther from it
C27_DescendantsBreadthFirst ==
    \A top \in DOMAIN folders :
        LET d == GetDescendantIds(folders, top)
        IN /\ Range(d) = {id \in DOMAIN folders : top \in Ancestors(folders, id)}
           /\ Len(d) = Cardinality(Range(d))
           /\ top \notin Range(d)
           /\ \A i, j \in 1..Len(d) :
                  i < j => DepthBelow(folders, d[i], top) <= DepthBelow(folders, d[j], top)

\* a move has been answered in a store where one folder has two children and a
\* grandchild
C27_Witness ==
    /\ resp.op = "updateFolder"
    /\ \E top \in DOMAIN folders :
           /\ Cardinality(ChildrenOf(folders, top)) = 2
           /\ \E c \in ChildrenOf(folders, top) : ChildrenOf(folders, c) # {}

\* C28: the two cycle checks agree: P is in getDescendantIds(F) if and only
\* if the pre-save walk up from P meets F, and the handler's refusals of a
\* move of F under P are those of the hook
C28_CycleChecksAgree ==
    \A id \in DOMAIN folders, parentId \in DOMAIN folders :
        /\ parentId # id =>
               (parentId \in Range(GetDescendantIds(folders, id))
                    <=> HookLoop(folders, HookStart(id, parentId)))
        /\ MoveRefused(folders, id, parentId)
               <=> PreSaveRejects(folders, id, parentId, TRUE)

\* a move into the folder's own grandchild has just been refused
C28_Witness ==
    /\ resp.op = "updateFolder"
    /\ resp.outcome = "InvalidOperation"
    /\ \E id \in DOMAIN folders, p \in DOMAIN folders :
           /\ folders[p].parentId \in DOMAIN folders
           /\ folders[folders[p].parentId].parentId = id
           /\ HookLoop(folders, HookStart(id, p))

\* ------------------------------------------------------------ failed writes

ErrorOutcomes ==
    {"NotFound", "Conflict", "InvalidOperation", "InvalidType", "ValidationError"}

\* a result with an error outcome holds the store as it is
FailsClean(r) ==
    LET result == r
    IN result.outcome \in ErrorOutcomes =>
           result.folders = folders /\ result.resources = resources

\* C29: a folder create, rename or move and a resource create, update, delete
\* or toggleFavorite that ends in NotFound, Conflict, InvalidOperation,
\* InvalidType or ValidationError leaves every folder and every resource as
\* it was
C29_ErrorsChangeNothing ==
    \A u \in Users :
        /\ \A name \in Names, parentId \in {NULL} \cup FolderIds :
               FailsClean(CreateFolderResult(folders, resources, nextFolderId, u,
                                             name, parentId))
        /\ \A id \in FolderIds, parentId \in {Absent, NULL} \cup FolderIds,
              name \in {NoName} \cup Names :
               FailsClean(UpdateFolderResult(folders, resources, u, id, parentId, name))
        /\ \A type \in TypeInputs, folderId \in {NULL} \cup FolderIds,
              bodyUserId \in {Absent} \cup Users :
               FailsClean(CreateResourceResult(folders, resources, nextResourceId, u,
                                               type, folderId, bodyUserId))
        /\ \A type \in TypeInputs, url \in FieldInputs, content \in FieldInputs :
               FailsClean(CreateResourceValidated(folders, resources, nextResourceId,
                                                  u, type, url, content))
        /\ \A id \in ResourceIds :
               /\ \A patch \in ResourcePatches :
                      FailsClean(UpdateResourceResult(folders, resources, u, id, patch))
               /\ FailsClean(DeleteResourceResult(folders, resources, u, id))
               /\ FailsClean(ToggleFavoriteResult(folders, resources, u, id))

\* a rename or move has just been answered Conflict in a store with a resource
C29_Witness ==
    /\ resp.op = "updateFolder"
    /\ resp.outcome = "Conflict"
    /\ resources # <<>>

\* ----------------------------------------------------------------- termination

\* C30: every move is answered, whatever interleaving of folder operations
\* made the store: both walks end, also on parent pointers that form a cycle
C30_MovesTerminate ==
    \A p \in Procs : (procs[p].pc # "idle") ~> (procs[p].pc = "idle")

====
